---------------------------- MODULE Spec2Model ----------------------------
(***************************************************************************)
(* Model of src/src/stability.py: the PSI estimator (_psi), the drift      *)
(* reporter (numeric_drift_report) and the segment analyser                *)
(* (segment_stability).                                                    *)
(*                                                                         *)
(* Conventions.                                                            *)
(*  - An optional value (a float that may be NaN, a timestamp that may be  *)
(*    NaT, a cell that may be None) is <<>> when missing and <<v>> when    *)
(*    present.                                                             *)
(*  - Feature values are integers.  Quantile edges are kept multiplied by  *)
(*    the bin count, which makes numpy's linear interpolation exact.       *)
(*  - PSI values, thresholds and p-values are fixed-point numbers in       *)
(*    thousandths.                                                         *)
(***************************************************************************)
EXTENDS Integers, Sequences, FiniteSets, TLC

VARIABLES
    expected,    \* _psi: the reference array it is called with
    actual,      \* _psi: the current array it is called with
    bins,        \* _psi: the bin count it is called with
    psi_locals,  \* _psi: its locals at return (<<>> before the call)
    df,          \* the DataFrame both reports are given
    call,        \* the last call of a report: its name and arguments
    drift,       \* numeric_drift_report: its locals and result at return
    out          \* segment_stability: the frame it returned

vars == <<expected, actual, bins, psi_locals, df, call, drift, out>>

----------------------------------------------------------------------------
(* Bounds of the model.                                                    *)

MaxVal == 2      \* feature values of the _psi arrays are 0..MaxVal
MaxLenE == 3     \* longest reference array given to _psi
MaxLenA == 2     \* longest current array given to _psi

----------------------------------------------------------------------------
(* Optional values and small helpers.                                      *)

NaN == <<>>
IsNaN(x) == x = <<>>
Some(v) == <<v>>

Range(s) == {s[i] : i \in DOMAIN s}

RECURSIVE SumSeq(_)
SumSeq(s) == IF s = <<>> THEN 0 ELSE Head(s) + SumSeq(Tail(s))

Max2(a, b) == IF a >= b THEN a ELSE b
Min2(a, b) == IF a <= b THEN a ELSE b

SeqsUpTo(S, n) == UNION {[1..k -> S] : k \in 0..n}

\* The sequence s itself, with its elements evaluated once.
AsSeq(s) == s \o <<>>

----------------------------------------------------------------------------
(* StabilityConfig defaults.                                               *)

psi_bins == 10
psi_warn == 100       \* 0.1 in thousandths
psi_alert == 250      \* 0.25 in thousandths
LnEps == -13816       \* ln(psi_epsilon) = ln(1e-6), in thousandths

\* np.log on the integers 1..64, in thousandths.
LnTable ==
    << 0, 693, 1099, 1386, 1609, 1792, 1946, 2079, 2197, 2303, 2398, 2485,
       2565, 2639, 2708, 2773, 2833, 2890, 2944, 2996, 3045, 3091, 3135,
       3178, 3219, 3258, 3296, 3332, 3367, 3401, 3434, 3466, 3497, 3526,
       3555, 3584, 3611, 3638, 3664, 3689, 3714, 3738, 3761, 3784, 3807,
       3829, 3850, 3871, 3892, 3912, 3932, 3951, 3970, 3989, 4007, 4025,
       4043, 4060, 4078, 4094, 4111, 4127, 4143, 4159 >>

----------------------------------------------------------------------------
(* _psi.                                                                   *)

\* arr[~np.isnan(arr)]: the non-missing values, in order.
StripNaN(arr) ==
    LET s == SelectSeq(arr, LAMBDA x : ~IsNaN(x))
    IN  AsSeq([i \in 1..Len(s) |-> s[i][1]])

\* xs in ascending order (np.quantile sorts its input).
Sorted(xs) ==
    AsSeq([k \in DOMAIN xs |->
        CHOOSE v \in Range(xs) :
            /\ Cardinality({i \in DOMAIN xs : xs[i] < v}) < k
            /\ k <= Cardinality({i \in DOMAIN xs : xs[i] <= v})])

\* np.quantile(xs, i/b), method "linear", multiplied by b, on the sorted
\* sample: the virtual index is i*(n-1)/b (counted from 0), and the value
\* interpolates between its two neighbours.
Quantile(sorted, i, b) ==
    LET n  == Len(sorted)
        lo == (i * (n - 1)) \div b
        r  == (i * (n - 1)) % b
        hi == Min2(lo + 1, n - 1)
    IN  sorted[lo + 1] * (b - r) + sorted[hi + 1] * r

\* np.unique: the distinct values, ascending.
Unique(S) ==
    AsSeq([j \in 1..Cardinality(S) |->
        CHOOSE v \in S : Cardinality({u \in S : u < v}) = j - 1])

\* edges = np.unique(np.quantile(expected, np.linspace(0, 1, bins + 1)))
QuantileEdges(xs, b) ==
    LET sorted == Sorted(xs)
    IN  Unique({Quantile(sorted, i, b) : i \in 0..b})

\* Bin j of np.histogram: half-open, except the last bin, which is closed.
\* A value below the first edge or above the last edge is in no bin.
InBin(x, edges, j) ==
    /\ edges[j] <= x
    /\ IF j = Len(edges) - 1 THEN x <= edges[j + 1] ELSE x < edges[j + 1]

\* np.histogram(xs, bins=edges)[0], the edges being multiplied by b.
Histogram(xs, edges, b) ==
    AsSeq([j \in 1..(Len(edges) - 1) |->
        Cardinality({i \in DOMAIN xs : InBin(b * xs[i], edges, j)})])

\* counts / max(counts.sum(), 1): the fraction of bin j before clipping.
Dist(counts) == [num |-> counts, den |-> Max2(SumSeq(counts), 1)]

\* np.clip(dist, eps, 1)[j] in thousandths: eps = 1e-6 is below the
\* resolution, and a non-empty bin holds at least 1/den > eps.
ClipMilli(dist, j) == (dist.num[j] * 1000) \div dist.den

\* np.log(np.clip(dist, eps, 1)[j]) in thousandths.
LnClip(dist, j) ==
    IF dist.num[j] = 0 THEN LnEps
    ELSE LnTable[dist.num[j]] - LnTable[dist.den]

\* np.sum((a_dist - e_dist) * np.log(a_dist / e_dist)), in thousandths.
PsiSum(e_dist, a_dist) ==
    SumSeq([j \in DOMAIN e_dist.num |->
        ((ClipMilli(a_dist, j) - ClipMilli(e_dist, j))
            * (LnClip(a_dist, j) - LnClip(e_dist, j))) \div 1000])

\* Mutant: the guard lets a single bin through.
TooFewEdges_single_bin(edges) == Len(edges) < 2

\* The guard of the second early return.
TooFewEdges(edges) == Len(edges) < 3

\* _psi's locals at its return; ret is the value returned.
PsiLocals(exp, act, b) ==
    LET e == StripNaN(exp)
        a == StripNaN(act)
    IN  IF Len(e) = 0 \/ Len(a) = 0
        THEN [at |-> "empty", e |-> e, a |-> a, ret |-> NaN]
        ELSE
          LET edges == QuantileEdges(e, b)
          IN  IF TooFewEdges(edges)
              THEN [at |-> "edges", e |-> e, a |-> a, edges |-> edges,
                    ret |-> NaN]
              ELSE
                LET e_counts == Histogram(e, edges, b)
                    a_counts == Histogram(a, edges, b)
                    e_dist   == Dist(e_counts)
                    a_dist   == Dist(a_counts)
                IN  [at |-> "end", e |-> e, a |-> a, edges |-> edges,
                     e_counts |-> e_counts, a_counts |-> a_counts,
                     e_dist |-> e_dist, a_dist |-> a_dist,
                     ret |-> Some(PsiSum(e_dist, a_dist))]

_psi(exp, act, b) == PsiLocals(exp, act, b).ret

----------------------------------------------------------------------------
(* The estimator on its own: every pair of arrays within the bounds.       *)

PsiVals == {NaN} \cup {Some(v) : v \in 0..MaxVal}
PsiBins == {2, psi_bins}

InitPsi ==
    /\ expected \in SeqsUpTo(PsiVals, MaxLenE)
    /\ actual \in SeqsUpTo(PsiVals, MaxLenA)
    /\ bins \in PsiBins
    /\ psi_locals = <<>>
    /\ df = <<>>
    /\ call = <<>>
    /\ drift = <<>>
    /\ out = <<>>

CallPsi ==
    /\ psi_locals = <<>>
    /\ psi_locals' = PsiLocals(expected, actual, bins)
    /\ UNCHANGED <<expected, actual, bins, df, call, drift, out>>

NextPsi == CallPsi

SpecPsi == InitPsi /\ [][NextPsi]_vars

----------------------------------------------------------------------------
(* DataFrames.  A frame is [columns, numeric, rows]: the column names in   *)
(* order, the names of the columns of a numeric dtype, and the rows, each  *)
(* a record with one field per column.                                     *)

EmptyFrame == [kind |-> "frame", rows |-> <<>>]
Frame(rows) == [kind |-> "frame", rows |-> rows]
Raised(exc) == [kind |-> "raise", exc |-> exc]

HasColumn(d, col) == \E i \in DOMAIN d.columns : d.columns[i] = col

\* df.select_dtypes(include=[np.number]).columns.tolist()
SelectNumeric(d) == SelectSeq(d.columns, LAMBDA c : c \in d.numeric)

\* df[col].to_numpy() for the rows idx (in row order).
ColumnOf(d, idx, col) ==
    LET s == SelectSeq([i \in DOMAIN d.rows |-> i], LAMBDA i : i \in idx)
    IN  AsSeq([k \in DOMAIN s |-> d.rows[s[k]][col]])

\* n copies of the row r.
Repeat(r, n) == AsSeq([i \in 1..n |-> r])

RECURSIVE Concat(_)
Concat(ss) == IF ss = <<>> THEN <<>> ELSE Head(ss) \o Concat(Tail(ss))

----------------------------------------------------------------------------
(* numeric_drift_report.                                                   *)

\* pd.to_datetime(value, errors="coerce"): the day number of an ISO date,
\* NaT for None and for text that is no date.
ToDatetime(raw) ==
    CASE raw = Some("2024-01-15") -> Some(15)
      [] raw = Some("2024-02-01") -> Some(32)
      [] raw = Some("2024-03-01") -> Some(61)
      [] OTHER -> NaN

\* Mutant: the current window starts after the cutoff, not at it.
NotBefore_strict(t, split) == ~IsNaN(t) /\ t[1] > split[1]

\* t < split and t >= split; a comparison with NaT is False.
Before(t, split) == ~IsNaN(t) /\ t[1] < split[1]
NotBefore(t, split) == ~IsNaN(t) /\ t[1] >= split[1]

\* pre = df[t < split]
PreRows(d, time_col, split) ==
    {i \in DOMAIN d.rows : Before(ToDatetime(d.rows[i][time_col]), split)}

\* post = df[t >= split]
PostRows(d, time_col, split) ==
    {i \in DOMAIN d.rows : NotBefore(ToDatetime(d.rows[i][time_col]), split)}

\* num, after "if features: num = [c for c in num if c in features]".
\* features is NaN for None; an empty list is falsy and filters nothing.
SelectedFeatures(d, features) ==
    IF IsNaN(features) \/ features[1] = <<>>
    THEN SelectNumeric(d)
    ELSE SelectSeq(SelectNumeric(d), LAMBDA c : c \in Range(features[1]))

\* "len(e2) > 20 and len(a2) > 20"
KsMinN == 20

\* Mutant: samples of exactly 20 observations pass the gate.
KsGate_at_least(e2, a2) == Len(e2) >= KsMinN /\ Len(a2) >= KsMinN

KsGate(e2, a2) == Len(e2) > KsMinN /\ Len(a2) > KsMinN

\* ks_p: ks is what scipy's ks_2samp does when called, [raises |-> TRUE] or
\* the p-value it returns; an exception is swallowed and leaves ks_p = NaN.
KsPValue(e, a, ks) ==
    IF KsGate(StripNaN(e), StripNaN(a)) /\ ~ks.raises
    THEN Some(ks.pvalue)
    ELSE NaN

\* Mutant: the thresholds themselves are not flagged.
Flag_strict(psi_val, cfg) ==
    IF ~IsNaN(psi_val)
    THEN IF psi_val[1] > cfg.psi_alert THEN "alert"
         ELSE IF psi_val[1] > cfg.psi_warn THEN "warn"
         ELSE "ok"
    ELSE "ok"

\* flag
Flag(psi_val, cfg) ==
    IF ~IsNaN(psi_val)
    THEN IF psi_val[1] >= cfg.psi_alert THEN "alert"
         ELSE IF psi_val[1] >= cfg.psi_warn THEN "warn"
         ELSE "ok"
    ELSE "ok"

\* One iteration of the loop over num: the record appended to rows.
FeatureRecord(d, pre, post, col, cfg, ks) ==
    LET e == ColumnOf(d, pre, col)
        a == ColumnOf(d, post, col)
        psi_val == _psi(e, a, cfg.psi_bins)
    IN  [feature |-> col,
         psi |-> psi_val,
         ks_pvalue |-> KsPValue(e, a, ks),
         flag |-> Flag(psi_val, cfg),
         pre_n |-> Len(StripNaN(e)),
         post_n |-> Len(StripNaN(a))]

\* The order of Python's string comparison on the three labels.
LabelRank(flag) == CASE flag = "alert" -> 1 [] flag = "ok" -> 2 [] flag = "warn" -> 3

\* Mutant: PSI ascending within a flag.
SortsBefore_psi_ascending(r1, r2) ==
    \/ LabelRank(r1.flag) < LabelRank(r2.flag)
    \/ /\ r1.flag = r2.flag
       /\ ~IsNaN(r1.psi)
       /\ IsNaN(r2.psi) \/ r1.psi[1] < r2.psi[1]

\* Whether r1 sorts strictly before r2 under
\* sort_values(["flag", "psi"], ascending=[True, False]); NaN sorts last.
SortsBefore(r1, r2) ==
    \/ LabelRank(r1.flag) < LabelRank(r2.flag)
    \/ /\ r1.flag = r2.flag
       /\ ~IsNaN(r1.psi)
       /\ IsNaN(r2.psi) \/ r1.psi[1] > r2.psi[1]

\* r put into the sorted sequence s behind every record it does not sort
\* strictly before (the sort is stable).
RECURSIVE InsertSorted(_, _)
InsertSorted(r, s) ==
    IF s = <<>> THEN <<r>>
    ELSE IF SortsBefore(r, s[Len(s)]) THEN
         InsertSorted(r, SubSeq(s, 1, Len(s) - 1)) \o <<s[Len(s)]>>
    ELSE s \o <<r>>

RECURSIVE SortValues(_)
SortValues(rows) ==
    IF rows = <<>> THEN <<>>
    ELSE InsertSorted(rows[Len(rows)], SortValues(SubSeq(rows, 1, Len(rows) - 1)))

\* pd.DataFrame(rows).sort_values(["flag", "psi"], ...): a frame built from
\* an empty list has no columns, and sorting it by "flag" raises KeyError.
SortReport(rows) ==
    IF rows = <<>> THEN Raised("KeyError") ELSE Frame(SortValues(rows))

\* cfg = cfg or StabilityConfig()
StabilityConfig ==
    [psi_bins |-> psi_bins, psi_warn |-> psi_warn, psi_alert |-> psi_alert]
CfgOrDefault(cfg) == IF IsNaN(cfg) THEN StabilityConfig ELSE cfg[1]

\* numeric_drift_report at its return: the line it returns from, its
\* locals pre, post and rows, and ret, the value it returns or the exception
\* it raises.  ks[col] is the behaviour of ks_2samp in the iteration for col.
DriftLocals(d, time_col, split_time, features, cfg, ks) ==
    IF ~HasColumn(d, time_col) THEN [at |-> "no_time_col", ret |-> EmptyFrame]
    ELSE
      LET split == ToDatetime(Some(split_time))
          pre   == PreRows(d, time_col, split)
          post  == PostRows(d, time_col, split)
          num   == SelectedFeatures(d, features)
          rows  == AsSeq([k \in DOMAIN num |->
                      FeatureRecord(d, pre, post, num[k], CfgOrDefault(cfg),
                                    ks[num[k]])])
      IN  [at |-> "end", pre |-> pre, post |-> post, rows |-> rows,
           ret |-> SortReport(rows)]

----------------------------------------------------------------------------
(* The drift reporter's inputs: frames of four runs of equal rows with the *)
(* columns ts (text), f1, f2 (float) and name (text).  The runs are        *)
(* ordered by time; only the first may carry text that is no date.         *)

MaxReps == 2     \* the last run of a frame has 1..MaxReps rows

DriftColumns == <<"ts", "f1", "f2", "name">>
DriftRow(ts, f1, f2) == [ts |-> ts, f1 |-> f1, f2 |-> f2, name |-> Some("x")]

RawTimes == <<Some("n/a"), Some("2024-01-15"), Some("2024-02-01")>>
F1Vals == {NaN, Some(0), Some(1)}
F2Vals == {Some(0), Some(1)}
Runs == 1..4

DriftFrame(ts, f1, f2, reps) ==
    [columns |-> DriftColumns,
     numeric |-> {"f1", "f2"},
     rows |-> Concat([g \in DOMAIN ts |->
                 Repeat(DriftRow(RawTimes[ts[g]], f1[g], f2[g]), reps[g])])]

\* The time cells of the runs: indices into RawTimes.
RunTimes(runs) ==
    {t \in [runs -> DOMAIN RawTimes] :
        /\ \A g \in runs \ {1} : t[g - 1] <= t[g]
        /\ t[2] > 1}

DriftFrames ==
    {DriftFrame(ts, f1, f2, [g \in Runs |-> IF g = 4 THEN r ELSE 1]) :
        ts \in RunTimes(Runs),
        f1 \in [Runs -> F1Vals],
        f2 \in [Runs -> F2Vals],
        r \in 1..MaxReps}

\* Frames long enough for the KS test: three runs of 1, 20 or 21 rows.
KsRuns == 1..3
KsReps == {1, KsMinN, KsMinN + 1}
KsFrames ==
    {DriftFrame(ts, f1, [g \in KsRuns |-> Some(1)], reps) :
        ts \in RunTimes(KsRuns),
        f1 \in [KsRuns -> F1Vals],
        reps \in [KsRuns -> KsReps]}

SplitTimes == {"2024-01-15", "2024-02-01"}
FeatureArgs == {NaN, Some(<<"f2">>), Some(<<"name">>)}
\* cfg: None, or a StabilityConfig with its own thresholds.
Configs ==
    {NaN, Some([psi_bins |-> psi_bins, psi_warn |-> 114, psi_alert |-> 6907])}
KsOutcomes ==
    {[raises |-> TRUE, pvalue |-> 0]}
        \cup {[raises |-> FALSE, pvalue |-> p] : p \in {0, 1000}}

NotCalled == [raises |-> TRUE, pvalue |-> 0]

\* The columns for which ks_2samp is called.
KsCalled(d, time_col, split_time, features) ==
    IF ~HasColumn(d, time_col) THEN {}
    ELSE LET split == ToDatetime(Some(split_time))
             pre   == PreRows(d, time_col, split)
             post  == PostRows(d, time_col, split)
         IN  {c \in Range(SelectedFeatures(d, features)) :
                 KsGate(StripNaN(ColumnOf(d, pre, c)),
                        StripNaN(ColumnOf(d, post, c)))}

NoPsiCall ==
    /\ expected = <<>>
    /\ actual = <<>>
    /\ bins = 0
    /\ psi_locals = <<>>

Init ==
    /\ df \in DriftFrames
    /\ call = <<>>
    /\ drift = <<>>
    /\ out = <<>>
    /\ NoPsiCall

InitKs ==
    /\ df \in KsFrames
    /\ call = <<>>
    /\ drift = <<>>
    /\ out = <<>>
    /\ NoPsiCall

NumericDriftReport(time_col, split_time, features, cfg) ==
    /\ call = <<>>
    /\ \E ks \in [KsCalled(df, time_col, split_time, features) -> KsOutcomes] :
         /\ drift' = DriftLocals(df, time_col, split_time, features, cfg,
                        [c \in df.numeric |->
                            IF c \in DOMAIN ks THEN ks[c] ELSE NotCalled])
         /\ call' = [name |-> "numeric_drift_report",
                     time_col |-> time_col, split_time |-> split_time,
                     features |-> features, cfg |-> cfg, ks |-> ks]
    /\ UNCHANGED <<df, out, expected, actual, bins, psi_locals>>

Next ==
    \/ \E split_time \in SplitTimes, features \in FeatureArgs, cfg \in Configs :
         NumericDriftReport("ts", split_time, features, cfg)
    \/ NumericDriftReport("event_time", "2024-02-01", NaN, NaN)

Spec == Init /\ [][Next]_vars

SpecKs == InitKs /\ [][Next]_vars

----------------------------------------------------------------------------
(* segment_stability.  A cell of an object column is missing (NaN) or a    *)
(* Python value [type, repr]: a str or an int, repr being what str() gives.*)

PyStr(text) == [type |-> "str", repr |-> text]
PyInt(text) == [type |-> "int", repr |-> text]

\* str.lower() and str.strip() on the texts of the model.
Lower(text) == IF text = "Yes" THEN "yes" ELSE text
Strip(text) == IF text = " no " THEN "no" ELSE text

\* y.astype(str): a missing cell becomes the text "nan".
AsTypeStr(cell) == IF IsNaN(cell) THEN Some("nan") ELSE Some(cell[1].repr)

\* mapping
MappingKeys == {"1", "0", "yes", "no", "true", "false"}
Mapping(text) == IF text \in {"1", "yes", "true"} THEN 1 ELSE 0

\* The distinct non-missing values of a column, and their numbers of rows.
ValuesOf(d, col) ==
    {d.rows[i][col][1] : i \in {k \in DOMAIN d.rows : ~IsNaN(d.rows[k][col])}}
CountOf(d, col, v) ==
    Cardinality({i \in DOMAIN d.rows : d.rows[i][col] = Some(v)})

\* seg.value_counts(): the orders in which it may list the values, most
\* frequent first; the order of values of equal count is the sort's choice.
ValueCountOrders(d, col) ==
    LET vals == ValuesOf(d, col)
    IN  {o \in [1..Cardinality(vals) -> vals] :
            /\ \A i, j \in DOMAIN o : i # j => o[i] # o[j]
            /\ \A i, j \in DOMAIN o :
                 i < j => CountOf(d, col, o[i]) >= CountOf(d, col, o[j])}

\* Mutant: the listing is not cut to top_k.
HeadK_all(s, top_k) == s

\* .head(top_k), for top_k >= 0.
HeadK(s, top_k) == SubSeq(s, 1, Min2(top_k, Len(s)))

\* y2 = y.astype(str).str.lower().str.strip()
Normalized(d, target_col) ==
    [i \in DOMAIN d.rows |->
        LET t == AsTypeStr(d.rows[i][target_col])
        IN  IF IsNaN(t) THEN NaN ELSE Some(Strip(Lower(t[1])))]

\* set(y2.dropna().unique()).issubset(set(mapping.keys()))
BinaryLike(y2) ==
    {y2[i][1] : i \in {k \in DOMAIN y2 : ~IsNaN(y2[k])}} \subseteq MappingKeys

\* rate = tmp.groupby("seg")["y"].mean(), tmp being the rows with a segment
\* and a binarized target: the mean of y over the rows of segment v, as a
\* fraction.
GroupMean(d, segment_col, y2, v) ==
    LET rows == {i \in DOMAIN d.rows :
                    d.rows[i][segment_col] = Some(v) /\ ~IsNaN(y2[i])}
    IN  [num |-> Cardinality({i \in rows : Mapping(y2[i][1]) = 1}),
         den |-> Cardinality(rows)]

\* out["segment"].map(rate)[k]: the label is looked up in rate's index, the
\* segment values themselves; a str label equals only a str of that text.
MapRate(d, segment_col, y2, label) ==
    LET keys == {v \in ValuesOf(d, segment_col) :
                    /\ v = PyStr(label)
                    /\ \E i \in DOMAIN d.rows :
                         d.rows[i][segment_col] = Some(v) /\ ~IsNaN(y2[i])}
    IN  IF keys = {} THEN NaN
        ELSE Some(GroupMean(d, segment_col, y2, CHOOSE v \in keys : TRUE))

\* out["pct"] = out["count"] / max(out["count"].sum(), 1)
Pct(count, counts) == [num |-> count, den |-> Max2(SumSeq(counts), 1)]

\* The frame segment_stability returns; order is value_counts' listing.
SegmentStability(d, segment_col, target_col, top_k, order) ==
    IF ~HasColumn(d, segment_col)
    THEN [kind |-> "frame", columns |-> <<>>, rows |-> <<>>]
    ELSE
      LET top    == HeadK(order, top_k)
          counts == [k \in DOMAIN top |-> CountOf(d, segment_col, top[k])]
          base   == [k \in DOMAIN top |->
                       [segment |-> top[k].repr,
                        count |-> counts[k],
                        pct |-> Pct(counts[k], counts)]]
      IN  IF ~IsNaN(target_col) /\ HasColumn(d, target_col[1])
             /\ BinaryLike(Normalized(d, target_col[1]))
          THEN [kind |-> "frame",
                columns |-> <<"segment", "count", "pct", "target_rate">>,
                rows |-> [k \in DOMAIN top |->
                    [segment |-> base[k].segment,
                     count |-> base[k].count,
                     pct |-> base[k].pct,
                     target_rate |->
                        MapRate(d, segment_col,
                                Normalized(d, target_col[1]),
                                base[k].segment)]]]
          ELSE [kind |-> "frame",
                columns |-> <<"segment", "count", "pct">>,
                rows |-> base]

----------------------------------------------------------------------------
(* The segment analyser's inputs: frames of three runs of equal rows with  *)
(* the object columns seg and target.                                      *)

top_k == 15

SegColumns == <<"seg", "target">>
SegCells == {NaN, Some(PyStr("A")), Some(PyStr("B")), Some(PyStr("C")),
             Some(PyInt("1"))}
TargetCells == {NaN, Some(PyStr("Yes")), Some(PyStr(" no ")),
                Some(PyStr("positive"))}
SegRuns == 1..3
SegShapes == {<<0, 0, 0>>, <<1, 1, 1>>, <<3, 2, 1>>}

SegFrames ==
    {[columns |-> SegColumns,
      numeric |-> {},
      rows |-> Concat([g \in SegRuns |->
                  Repeat([seg |-> sg[g], target |-> tg[g]], reps[g])])] :
        sg \in [SegRuns -> SegCells],
        tg \in [SegRuns -> TargetCells],
        reps \in SegShapes}

InitSeg ==
    /\ df \in SegFrames
    /\ call = <<>>
    /\ drift = <<>>
    /\ out = <<>>
    /\ NoPsiCall

CallSegmentStability(segment_col, target_col, k) ==
    /\ call = <<>>
    /\ \E order \in (IF HasColumn(df, segment_col)
                     THEN ValueCountOrders(df, segment_col) ELSE {<<>>}) :
         out' = SegmentStability(df, segment_col, target_col, k, order)
    /\ call' = [name |-> "segment_stability", segment_col |-> segment_col,
                target_col |-> target_col, top_k |-> k]
    /\ UNCHANGED <<df, drift, expected, actual, bins, psi_locals>>

NextSeg ==
    \/ \E target_col \in {NaN, Some("target"), Some("label")}, k \in {2, top_k} :
         CallSegmentStability("seg", target_col, k)
    \/ CallSegmentStability("region", Some("target"), top_k)

SpecSeg == InitSeg /\ [][NextSeg]_vars

----------------------------------------------------------------------------
(* Claims about numeric_drift_report.                                      *)

DriftCalled == call # <<>> /\ call.name = "numeric_drift_report"
Partitioned == DriftCalled /\ drift.at = "end"
Returned == DriftCalled /\ drift.ret.kind = "frame"
Report == drift.ret.rows
Records == Range(Report)
CallCfg == CfgOrDefault(call.cfg)
Defined(x) == x # <<>>

\* C1: the flag of every record is "alert" iff its PSI is defined and at or
\* above the alert threshold, "warn" iff its PSI is defined, below the alert
\* threshold and at or above the warn threshold, and "ok" in every other
\* case, an undefined PSI included.
C1_FlagIsFunctionOfPsi ==
    Returned =>
      \A r \in Records :
        /\ r.flag \in {"alert", "warn", "ok"}
        /\ r.flag = "alert" <=>
             (Defined(r.psi) /\ r.psi[1] >= CallCfg.psi_alert)
        /\ r.flag = "warn" <=>
             (/\ Defined(r.psi)
              /\ r.psi[1] < CallCfg.psi_alert
              /\ r.psi[1] >= CallCfg.psi_warn)
        /\ ~Defined(r.psi) => r.flag = "ok"
        /\ (Defined(r.psi) /\ r.psi[1] < CallCfg.psi_warn
              /\ r.psi[1] < CallCfg.psi_alert) => r.flag = "ok"

\* A report with one record whose PSI equals the warn threshold, flagged
\* "warn", and one whose PSI equals the alert threshold, flagged "alert".
C1_Witness ==
    /\ Returned
    /\ \E r \in Records :
         Defined(r.psi) /\ r.psi[1] = CallCfg.psi_warn /\ r.flag = "warn"
    /\ \E r \in Records :
         Defined(r.psi) /\ r.psi[1] = CallCfg.psi_alert /\ r.flag = "alert"

\* A report with a record of undefined PSI and one of a PSI below the warn
\* threshold, both flagged "ok".
C1_WitnessOk ==
    /\ Returned
    /\ \E r \in Records : ~Defined(r.psi) /\ r.flag = "ok"
    /\ \E r \in Records :
         Defined(r.psi) /\ r.psi[1] < CallCfg.psi_warn /\ r.flag = "ok"

\* The day a timestamp cell parses to, if it parses.
Parses(i) == Defined(ToDatetime(df.rows[i].ts))
Day(i) == ToDatetime(df.rows[i].ts)[1]
Cutoff == ToDatetime(Some(call.split_time))[1]

\* C2: a row is in pre iff its timestamp parses and is before the cutoff,
\* in post iff it parses and is at or after the cutoff; pre and post are
\* disjoint sets of rows, and a row whose timestamp does not parse is in
\* neither.
C2_TimePartition ==
    Partitioned =>
      /\ \A i \in DOMAIN df.rows :
           /\ i \in drift.pre <=> (Parses(i) /\ Day(i) < Cutoff)
           /\ i \in drift.post <=> (Parses(i) /\ Day(i) >= Cutoff)
           /\ ~Parses(i) => (i \notin drift.pre /\ i \notin drift.post)
      /\ drift.pre \cap drift.post = {}
      /\ drift.pre \cup drift.post \subseteq DOMAIN df.rows

\* A partition with a row before the cutoff, a row exactly at the cutoff and
\* a row whose timestamp does not parse.
C2_Witness ==
    /\ Partitioned
    /\ drift.pre # {}
    /\ \E i \in drift.post : Day(i) = Cutoff
    /\ \E i \in DOMAIN df.rows : ~Parses(i)

\* The numeric columns the call selects, stated from the frame's dtypes.
Selected ==
    {c \in df.numeric :
        \/ ~Defined(call.features)
        \/ \E k \in DOMAIN call.features[1] : call.features[1][k] = c}

\* C3: the call returns normally; without the timestamp column the report
\* is empty, and with it the report has exactly one record per selected
\* numeric feature (none when no numeric column is selected).
C3_NeverRaises ==
    DriftCalled =>
      /\ drift.ret.kind = "frame"
      /\ ~HasColumn(df, call.time_col) => Report = <<>>
      /\ HasColumn(df, call.time_col) =>
           /\ Len(Report) = Cardinality(Selected)
           /\ \A c \in Selected : \E k \in DOMAIN Report : Report[k].feature = c

\* Rows of the partition with a value in column c.
NonMissing(idx, c) == Cardinality({i \in idx : Defined(df.rows[i][c])})

\* C5: a record's KS p-value is defined only if both samples have more than
\* 20 non-missing observations; it is undefined when ks_2samp raised, and
\* the call then still returns; a defined p-value lies in [0, 1].
C5_KsGate ==
    Partitioned =>
      /\ Selected # {} => drift.ret.kind = "frame"
      /\ Returned =>
           \A r \in Records :
             /\ Defined(r.ks_pvalue) =>
                  /\ NonMissing(drift.pre, r.feature) > 20
                  /\ NonMissing(drift.post, r.feature) > 20
                  /\ r.ks_pvalue[1] >= 0
                  /\ r.ks_pvalue[1] <= 1000
             /\ (r.feature \in DOMAIN call.ks /\ call.ks[r.feature].raises)
                  => ~Defined(r.ks_pvalue)

\* A report with a defined p-value for one feature and an undefined one for
\* a feature with exactly 20 reference observations.
C5_Witness ==
    /\ Returned
    /\ Partitioned
    /\ \E r \in Records : Defined(r.ks_pvalue)
    /\ \E r \in Records :
         /\ ~Defined(r.ks_pvalue)
         /\ NonMissing(drift.pre, r.feature) = 20
         /\ NonMissing(drift.post, r.feature) > 20

\* A report returned although ks_2samp raised for a feature.
C5_WitnessRaise ==
    /\ Returned
    /\ \E r \in Records :
         /\ r.feature \in DOMAIN call.ks
         /\ call.ks[r.feature].raises
         /\ ~Defined(r.ks_pvalue)

\* C6: the records are in ascending order of the flag's label (alert, ok,
\* warn) and, within one flag, in descending order of PSI; they are the
\* per-feature records, each once and unchanged.
C6_SortOrder ==
    (Returned /\ Partitioned) =>
      /\ \A i, j \in DOMAIN Report :
           i < j =>
             /\ Report[i].flag = "ok" => Report[j].flag # "alert"
             /\ Report[i].flag = "warn" => Report[j].flag = "warn"
             /\ (/\ Report[i].flag = Report[j].flag
                 /\ Defined(Report[i].psi)
                 /\ Defined(Report[j].psi))
                  => Report[i].psi[1] >= Report[j].psi[1]
      /\ Len(Report) = Len(drift.rows)
      /\ \E p \in [DOMAIN Report -> DOMAIN drift.rows] :
           /\ \A i, j \in DOMAIN Report : i # j => p[i] # p[j]
           /\ \A i \in DOMAIN Report : Report[i] = drift.rows[p[i]]
      /\ \A c \in Selected :
           Cardinality({k \in DOMAIN Report : Report[k].feature = c}) = 1

\* A report the sort reordered: f2 comes first, with the same flag as f1 and
\* a larger PSI.
C6_Witness ==
    /\ Returned
    /\ Len(Report) = 2
    /\ Report[1].feature = "f2"
    /\ Report[1].flag = Report[2].flag
    /\ Defined(Report[2].psi)
    /\ Report[1].psi[1] > Report[2].psi[1]

\* A report in which an "ok" record precedes a "warn" record.
C6_WitnessLexical ==
    /\ Returned
    /\ Len(Report) = 2
    /\ Report[1].feature = "f2"
    /\ Report[1].flag = "ok"
    /\ Report[2].flag = "warn"

----------------------------------------------------------------------------
(* Claims about _psi.                                                      *)

PsiCalled == psi_locals # <<>>

\* The non-missing values of an array, as the set of their positions.
Present(arr) == {i \in DOMAIN arr : Defined(arr[i])}

\* The distinct quantile edges of the reference sample.
DistinctEdges ==
    {Quantile(Sorted(StripNaN(expected)), i, bins) : i \in 0..bins}

\* C4: the PSI is undefined whenever a sample is empty after removing the
\* missing values or the reference sample has fewer than 3 distinct quantile
\* edges (so for every constant reference sample), and is a number in every
\* other case.
C4_PsiUndefinedCases ==
    PsiCalled =>
      LET empty == Present(expected) = {} \/ Present(actual) = {}
      IN  /\ empty => ~Defined(psi_locals.ret)
          /\ (~empty /\ Cardinality(DistinctEdges) < 3)
               => ~Defined(psi_locals.ret)
          /\ (~empty /\ Cardinality({expected[i] : i \in Present(expected)}) = 1)
               => ~Defined(psi_locals.ret)
          /\ (~empty /\ Cardinality(DistinctEdges) >= 3)
               => (Defined(psi_locals.ret) /\ psi_locals.ret[1] \in Int)

\* A call whose reference sample has two distinct values and yet only two
\* distinct quantile edges: the PSI is undefined.
C4_Witness ==
    /\ PsiCalled
    /\ Present(expected) # {}
    /\ Present(actual) # {}
    /\ Cardinality({expected[i] : i \in Present(expected)}) = 2
    /\ Cardinality(DistinctEdges) = 2
    /\ ~Defined(psi_locals.ret)

\* A call with a missing value in each array that returns a number.
C4_WitnessDefined ==
    /\ PsiCalled
    /\ Present(expected) # DOMAIN expected
    /\ Present(actual) # DOMAIN actual
    /\ Defined(psi_locals.ret)

\* C10: when both histograms are taken, every non-missing observation of
\* either sample is counted in a bin, each sample's counts are divided by
\* its number of non-missing observations, and so each sample's
\* probabilities sum to 1.
C10_EveryObservationBinned ==
    (PsiCalled /\ psi_locals.at = "end") =>
      /\ SumSeq(psi_locals.e_counts) = Cardinality(Present(expected))
      /\ SumSeq(psi_locals.a_counts) = Cardinality(Present(actual))
      /\ psi_locals.e_dist.den = Cardinality(Present(expected))
      /\ psi_locals.a_dist.den = Cardinality(Present(actual))
      /\ SumSeq(psi_locals.e_dist.num) = psi_locals.e_dist.den
      /\ SumSeq(psi_locals.a_dist.num) = psi_locals.a_dist.den

----------------------------------------------------------------------------
(* Claims about segment_stability.                                         *)

SegReturned ==
    /\ call # <<>>
    /\ call.name = "segment_stability"
    /\ HasColumn(df, call.segment_col)

\* The segment cells that are not missing, and the rows of a segment value.
SegValues == {df.rows[i].seg[1] : i \in {k \in DOMAIN df.rows : Defined(df.rows[k].seg)}}
RowsOf(v) == {i \in DOMAIN df.rows : df.rows[i].seg = Some(v)}
SegColumn == [i \in DOMAIN df.rows |-> df.rows[i].seg]
ReportedTotal == SumSeq([k \in DOMAIN out.rows |-> out.rows[k].count])

\* C7: the result has one record per distinct non-missing segment value
\* among the top_k most frequent, with that value's number of rows; each
\* share is the count over the sum of the reported counts, so the shares of
\* a non-empty result sum to 1; and for [A,A,A,B,B,C] with top_k = 2 the
\* result is A (3, 0.6), B (2, 0.4).
C7_SegmentShares ==
    SegReturned =>
      /\ Len(out.rows) = Min2(call.top_k, Cardinality(SegValues))
      /\ \E f \in [DOMAIN out.rows -> SegValues] :
           /\ \A i, j \in DOMAIN out.rows : i # j => f[i] # f[j]
           /\ \A k \in DOMAIN out.rows :
                /\ out.rows[k].segment = f[k].repr
                /\ out.rows[k].count = Cardinality(RowsOf(f[k]))
                /\ \A v \in SegValues :
                     (\A i \in DOMAIN out.rows : f[i] # v)
                       => out.rows[k].count >= Cardinality(RowsOf(v))
      /\ \A k \in DOMAIN out.rows :
           /\ out.rows[k].pct.den = ReportedTotal
           /\ out.rows[k].pct.num = out.rows[k].count
      /\ out.rows # <<>> =>
           SumSeq([k \in DOMAIN out.rows |-> out.rows[k].pct.num])
             = out.rows[1].pct.den
      /\ (/\ SegColumn = <<Some(PyStr("A")), Some(PyStr("A")), Some(PyStr("A")),
                           Some(PyStr("B")), Some(PyStr("B")), Some(PyStr("C"))>>
          /\ call.top_k = 2)
           => /\ Len(out.rows) = 2
              /\ out.rows[1].segment = "A" /\ out.rows[1].count = 3
              /\ out.rows[1].pct.num * 10 = 6 * out.rows[1].pct.den
              /\ out.rows[2].segment = "B" /\ out.rows[2].count = 2
              /\ out.rows[2].pct.num * 10 = 4 * out.rows[2].pct.den

\* The call on [A,A,A,B,B,C] with top_k = 2, returning two records.
C7_Witness ==
    /\ SegReturned
    /\ SegColumn = <<Some(PyStr("A")), Some(PyStr("A")), Some(PyStr("A")),
                     Some(PyStr("B")), Some(PyStr("B")), Some(PyStr("C"))>>
    /\ call.top_k = 2
    /\ Len(out.rows) = 2

HasTargetRate == \E k \in DOMAIN out.columns : out.columns[k] = "target_rate"

\* The distinct non-null target values, lowercased and trimmed.
TargetTexts ==
    {Strip(Lower(df.rows[i].target[1].repr)) :
        i \in {k \in DOMAIN df.rows : Defined(df.rows[k].target)}}

\* C8: with a target column that exists, the target rate is attached iff
\* the distinct non-null target values, lowercased and trimmed, all are in
\* the vocabulary; missing target values do not count.
C8_TargetRateAttached ==
    (SegReturned /\ call.target_col = Some("target")) =>
      (HasTargetRate <=> TargetTexts \subseteq {"1", "0", "yes", "no", "true", "false"})

\* C9: when the target rate is attached, every record's target rate is the
\* mean of the binarized target over the rows of the record's segment, for
\* str and for int segment values alike, and lies in [0, 1].
C9_TargetRateIsSegmentMean ==
    (SegReturned /\ HasTargetRate) =>
      \A k \in DOMAIN out.rows :
        \A v \in SegValues :
          (v.repr = out.rows[k].segment /\ Cardinality(RowsOf(v)) = out.rows[k].count)
            => LET ones == Cardinality({i \in RowsOf(v) :
                              Strip(Lower(df.rows[i].target[1].repr)) \in {"1", "yes", "true"}})
               IN  /\ Defined(out.rows[k].target_rate)
                   /\ out.rows[k].target_rate[1].num * Cardinality(RowsOf(v))
                        = ones * out.rows[k].target_rate[1].den
                   /\ out.rows[k].target_rate[1].num >= 0
                   /\ out.rows[k].target_rate[1].num <= out.rows[k].target_rate[1].den

=============================================================================
